---- MODULE Spec2Model ----
(***************************************************************************)
(* The reader-writer lock of src/src/lib.rs: the four counters of State,   *)
(* the Vec<Condvar> of writer handles, the reader Condvar, and the payload,*)
(* driven by threads that call read()/write() and drop the guards.         *)
(*                                                                         *)
(* Every section of code that runs with the internal mutex held is one     *)
(* atomic action.  A thread blocked in Condvar::wait has released the      *)
(* mutex; a notify makes it runnable again and its next action is the      *)
(* re-check of the while condition with the mutex re-acquired.             *)
(***************************************************************************)
EXTENDS Integers, Sequences, FiniteSets, TLC

VARIABLES
    pref,       \* RwLock.pref : "Reader" | "Writer"
    order,      \* RwLock.order: "Fifo" | "Lifo"
    repr,       \* how the build represents a Condvar: "boxed" | "inline"
    state,      \* RwLock.state: the four i32 counters behind the Mutex
    poisoned,   \* poison flag of RwLock.state (a thread panicked holding it)
    writer,     \* RwLock.writer: Vec<Condvar>, as the sequence of handle ids
    cap,        \* capacity of the Vec's buffer
    nextCv,     \* id the next Condvar::new() gets
    data,       \* RwLock.data
    pc,         \* per thread: where it stands
    todo,       \* per thread: calls of read()/write() it still makes (a
                \* thread makes one call; more calls are more threads)
    len,        \* per thread: the local `len` of write()
    own,        \* per thread: id of the Condvar::new() it pushed in write()
    cv,         \* per thread: handle id the blocked writer called wait() on
    moved,      \* per thread: the Vec buffer was reallocated under its wait
    obs,        \* per thread: value last seen/stored through its live guard
    batch       \* readers notified by the last write-guard drop (Reader pref)
                \* that have not been admitted yet

vars == <<pref, order, repr, state, poisoned, writer, cap, nextCv, data,
          pc, todo, len, own, cv, moved, obs, batch>>

\* ---------------------------------------------------------------- bounds
NumThreads == 3     \* threads of Spec and SpecPlain
NumWriters == 3     \* the N writers of SpecWriters
NumQueued == 4      \* the writers W1..Wn queued behind W0 in SpecQueue
DemoThreads == 4    \* the threads main() spawns (100 in the source)

None == -1

Threads == DOMAIN pc

\* ------------------------------------------------------- the lock's rules

\* read() that defers to active writers only, whatever the preference
ReadMustWait_ActiveOnly(s) ==
    s.actv_writer > 0

\* read() that never waits under Reader preference
ReadMustWait_Never(s) ==
    IF pref = "Reader" THEN FALSE
    ELSE s.actv_writer + s.wtng_writer > 0

\* the while condition of read(): TRUE when the reader has to wait
ReadMustWait(s) ==
    IF pref = "Reader" THEN s.actv_writer > 0
    ELSE s.actv_writer + s.wtng_writer > 0

\* write() that forgets the active readers under Writer preference
WriteMustWait_NoReaders(s) ==
    IF pref = "Reader" THEN s.actv_writer + s.actv_reader + s.wtng_reader > 0
    ELSE s.actv_writer > 0

\* write() that forgets the waiting readers under Reader preference
WriteMustWait_NoWaiting(s) ==
    s.actv_writer + s.actv_reader > 0

\* write() that forgets the active readers under Reader preference
WriteMustWait_NoActive(s) ==
    IF pref = "Reader" THEN s.actv_writer + s.wtng_reader > 0
    ELSE s.actv_writer + s.actv_reader > 0

\* the while condition of write(): TRUE when the writer has to wait
WriteMustWait(s) ==
    IF pref = "Reader" THEN s.actv_writer + s.actv_reader + s.wtng_reader > 0
    ELSE s.actv_writer + s.actv_reader > 0

\* the handle a releasing guard notifies: vec[0] or vec.pop()
Chosen(vec) == IF order = "Fifo" THEN Head(vec) ELSE vec[Len(vec)]

\* the Vec after the release: vec.remove(0) or vec.pop()
Remaining(vec) ==
    IF order = "Fifo" THEN Tail(vec) ELSE SubSeq(vec, 1, Len(vec) - 1)

\* The blocked writers a notify_all() of the chosen handle wakes.  A writer
\* blocks through a reference into the Vec's buffer (vec[len]) that other
\* threads push to, shift and pop while it sleeps.  With a boxed Condvar the
\* OS object travels with the Vec element, so the writers that called wait()
\* on that element wake.  With an inline Condvar (a futex word inside the
\* element) the sleepers are keyed by the slot's address: vec[0].notify_all()
\* wakes who sleeps on slot 0 of the current buffer, and notify_all() on the
\* popped temporary wakes nobody.
WokenWriters(vec) ==
    IF repr = "boxed"
    THEN {u \in Threads : pc[u] = "wwait" /\ cv[u] = Chosen(vec)}
    ELSE IF order = "Fifo"
         THEN {u \in Threads : pc[u] = "wwait" /\ len[u] = 0 /\ ~moved[u]}
         ELSE {}

\* all threads blocked on RwLock.reader
WaitingReaders == {u \in Threads : pc[u] = "rwait"}

\* Vec growth on push: RawVec doubles, starting at 4
Grown(c) == IF c = 0 THEN 4 ELSE 2 * c

\* pc after thread t moves to `to` and the threads of W are woken
Moved(t, to, W) ==
    [u \in Threads |->
        IF u = t THEN to
        ELSE IF u \in W THEN (IF pc[u] = "rwait" THEN "rwake" ELSE "wwake")
        ELSE pc[u]]

\* ------------------------------------------------------------------ Init

Fresh(threads, prefs, orders, reprs, value) ==
    /\ pref \in prefs
    /\ order \in orders
    /\ repr \in reprs
    /\ state = [actv_reader |-> 0, actv_writer |-> 0,
                wtng_reader |-> 0, wtng_writer |-> 0]
    /\ poisoned = FALSE
    /\ writer = <<>>
    /\ cap = 0
    /\ nextCv = 1
    /\ data = value
    /\ pc = [t \in threads |-> "idle"]
    /\ todo = [t \in threads |-> 1]
    /\ len = [t \in threads |-> 0]
    /\ own = [t \in threads |-> 0]
    /\ cv = [t \in threads |-> 0]
    /\ moved = [t \in threads |-> FALSE]
    /\ obs = [t \in threads |-> None]
    /\ batch = {}

Init ==
    Fresh(1 .. NumThreads, {"Reader", "Writer"}, {"Fifo", "Lifo"},
          {"boxed", "inline"}, 0)

\* --------------------------------------------------------------- actions

\* a thread panics without the mutex: lock().unwrap() or wait().unwrap()
\* on the poisoned mutex
Unwrap(t) ==
    /\ pc' = [pc EXCEPT ![t] = "panicked"]
    /\ obs' = [obs EXCEPT ![t] = None]
    /\ UNCHANGED <<state, poisoned, writer, cap, nextCv, data, len, cv,
                   moved, batch>>

\* the reader passes its while loop
AdmitReader(t) ==
    /\ state' = [state EXCEPT !.actv_reader = @ + 1,
                              !.wtng_reader = IF pc[t] = "idle" THEN @ ELSE @ - 1]
    /\ pc' = [pc EXCEPT ![t] = "reading"]
    /\ batch' = batch \ {t}
    /\ UNCHANGED <<poisoned, writer, cap, nextCv, data, len, cv, moved, obs>>

\* RwLock::read up to its first wait or its return
read(t) ==
    /\ pc[t] = "idle"
    /\ todo[t] > 0
    /\ todo' = [todo EXCEPT ![t] = @ - 1]
    /\ UNCHANGED <<pref, order, repr, own>>
    /\ IF poisoned THEN Unwrap(t)
       ELSE IF ReadMustWait(state)
            THEN /\ state' = [state EXCEPT !.wtng_reader = @ + 1]
                 /\ pc' = [pc EXCEPT ![t] = "rwait"]
                 /\ UNCHANGED <<poisoned, writer, cap, nextCv, data, len, cv,
                                moved, obs, batch>>
            ELSE AdmitReader(t)

\* RwLock::read from the return of reader.wait() on
read_wake(t) ==
    /\ pc[t] = "rwake"
    /\ UNCHANGED <<pref, order, repr, todo, own>>
    /\ IF poisoned THEN Unwrap(t)
       ELSE IF ReadMustWait(state)
            THEN /\ pc' = [pc EXCEPT ![t] = "rwait"]
                 /\ UNCHANGED <<state, poisoned, writer, cap, nextCv, data,
                                len, cv, moved, obs, batch>>
            ELSE AdmitReader(t)

\* the writer passes its while loop
AdmitWriter(t, vec) ==
    /\ state' = [state EXCEPT !.actv_writer = @ + 1,
                              !.wtng_writer = IF pc[t] = "idle" THEN @ ELSE @ - 1]
    /\ pc' = [pc EXCEPT ![t] = "writing"]
    /\ writer' = vec
    /\ UNCHANGED <<poisoned, cv, obs>>

\* RwLock::write up to its first wait or its return.  The push may grow the
\* buffer; whether realloc moves it is the allocator's choice, and a move
\* leaves the sleeping writers' references dangling.
write(t) ==
    /\ pc[t] = "idle"
    /\ todo[t] > 0
    /\ todo' = [todo EXCEPT ![t] = @ - 1]
    /\ UNCHANGED <<pref, order, repr, data, batch>>
    /\ own' = [own EXCEPT ![t] = IF poisoned THEN @ ELSE nextCv]
    /\ IF poisoned
       THEN Unwrap(t)
       ELSE LET s1 == [state EXCEPT !.wtng_writer = @ + 1]
                vec == Append(writer, nextCv)
                grows == Len(writer) = cap
                sleepers == {u \in Threads : pc[u] = "wwait" /\ ~moved[u]}
            IN  /\ nextCv' = nextCv + 1
                /\ len' = [len EXCEPT ![t] = Len(writer)]
                /\ cap' = IF grows THEN Grown(cap) ELSE cap
                /\ \E mv \in IF grows /\ repr = "inline" /\ sleepers # {}
                             THEN BOOLEAN ELSE {FALSE} :
                       moved' = [u \in Threads |->
                                    IF u = t THEN FALSE
                                    ELSE moved[u] \/ (mv /\ u \in sleepers)]
                /\ IF WriteMustWait(s1)
                   THEN /\ state' = s1
                        /\ writer' = vec
                        /\ cv' = [cv EXCEPT ![t] = vec[Len(writer) + 1]]
                        /\ pc' = [pc EXCEPT ![t] = "wwait"]
                        /\ UNCHANGED <<poisoned, obs>>
                   ELSE AdmitWriter(t, vec)

\* RwLock::write from the return of vec[len].wait() on: the while condition
\* is evaluated again and, when it still holds, vec[len] is indexed again
write_wake(t) ==
    /\ pc[t] = "wwake"
    /\ UNCHANGED <<pref, order, repr, todo, data, batch, cap, nextCv, len,
                   own>>
    /\ IF poisoned
       THEN Unwrap(t)
       ELSE IF WriteMustWait(state)
            THEN IF len[t] < Len(writer)
                 THEN /\ cv' = [cv EXCEPT ![t] = writer[len[t] + 1]]
                      /\ moved' = [moved EXCEPT ![t] = FALSE]
                      /\ pc' = [pc EXCEPT ![t] = "wwait"]
                      /\ UNCHANGED <<state, poisoned, writer, obs>>
                 ELSE \* index out of bounds with the MutexGuard alive
                      /\ poisoned' = TRUE
                      /\ pc' = [pc EXCEPT ![t] = "panicked"]
                      /\ UNCHANGED <<state, writer, cv, moved, obs>>
            ELSE AdmitWriter(t, writer) /\ UNCHANGED moved

\* the `match order` block of both drops, run with the counters s1:
\* notify the chosen handle and take it out of the Vec
NotifyWriter(t, s1) ==
    /\ state' = s1
    /\ IF writer = <<>>
       THEN \* vec[0] / vec.pop().unwrap() on the empty Vec
            /\ poisoned' = TRUE
            /\ pc' = [pc EXCEPT ![t] = "panicked"]
            /\ UNCHANGED writer
       ELSE /\ pc' = Moved(t, "idle", WokenWriters(writer))
            /\ writer' = Remaining(writer)
            /\ UNCHANGED poisoned

\* a drop that notifies nobody
NotifyNobody(t, s1) ==
    /\ state' = s1
    /\ pc' = [pc EXCEPT ![t] = "idle"]
    /\ UNCHANGED <<poisoned, writer>>

\* Drop for RwLockReadGuard
DropReadGuard(t) ==
    /\ pc[t] = "reading"
    /\ UNCHANGED <<pref, order, repr, todo, own>>
    /\ IF poisoned
       THEN Unwrap(t)
       ELSE LET s1 == [state EXCEPT !.actv_reader = @ - 1]
            IN  /\ obs' = [obs EXCEPT ![t] = None]
                /\ UNCHANGED <<cap, nextCv, data, len, cv, moved, batch>>
                /\ IF s1.wtng_writer > 0
                   THEN NotifyWriter(t, s1)
                   ELSE NotifyNobody(t, s1)

\* Drop for RwLockWriteGuard
DropWriteGuard(t) ==
    /\ pc[t] = "writing"
    /\ UNCHANGED <<pref, order, repr, todo, own>>
    /\ IF poisoned
       THEN Unwrap(t)
       ELSE LET s1 == [state EXCEPT !.actv_writer = @ - 1]
                readers == /\ s1.wtng_reader > 0
                           /\ pref = "Writer" => s1.wtng_writer = 0
            IN  /\ obs' = [obs EXCEPT ![t] = None]
                /\ UNCHANGED <<cap, nextCv, data, len, cv, moved>>
                /\ IF readers
                   THEN \* self.lock.reader.notify_all()
                        /\ state' = s1
                        /\ pc' = Moved(t, "idle", WaitingReaders)
                        /\ batch' = IF pref = "Reader"
                                    THEN {u \in Threads : pc[u] \in {"rwait", "rwake"}}
                                    ELSE batch
                        /\ UNCHANGED <<poisoned, writer>>
                   ELSE /\ UNCHANGED batch
                        /\ IF s1.wtng_writer > 0
                           THEN NotifyWriter(t, s1)
                           ELSE NotifyNobody(t, s1)

\* Deref for RwLockReadGuard: the reader looks at the payload
Deref(t) ==
    /\ pc[t] = "reading"
    /\ obs[t] = None
    /\ obs' = [obs EXCEPT ![t] = data]
    /\ UNCHANGED <<pref, order, repr, state, poisoned, writer, cap, nextCv,
                   data, pc, todo, len, own, cv, moved, batch>>

\* DerefMut for RwLockWriteGuard: the writer stores its own number, as the
\* threads of main() do
DerefMut(t) ==
    /\ pc[t] = "writing"
    /\ obs[t] = None
    /\ data' = t
    /\ obs' = [obs EXCEPT ![t] = t]
    /\ UNCHANGED <<pref, order, repr, state, poisoned, writer, cap, nextCv,
                   pc, todo, len, own, cv, moved, batch>>

\* Condvar::wait may return without a notify
SpuriousWake(t) ==
    /\ pc[t] \in {"rwait", "wwait"}
    /\ pc' = [pc EXCEPT ![t] = IF pc[t] = "rwait" THEN "rwake" ELSE "wwake"]
    /\ UNCHANGED <<pref, order, repr, state, poisoned, writer, cap, nextCv,
                   data, todo, len, own, cv, moved, obs, batch>>

\* ------------------------------------------------------- specifications

\* every behaviour: any policy, order and build, spurious wakeups included
Next ==
    \/ \E t \in Threads : read(t)
    \/ \E t \in Threads : read_wake(t)
    \/ \E t \in Threads : write(t)
    \/ \E t \in Threads : write_wake(t)
    \/ \E t \in Threads : DropReadGuard(t)
    \/ \E t \in Threads : DropWriteGuard(t)
    \/ \E t \in Threads : Deref(t)
    \/ \E t \in Threads : DerefMut(t)
    \/ \E t \in Threads : SpuriousWake(t)

Spec == Init /\ [][Next]_vars

\* the same threads where wait() returns only after a notify and the
\* Condvar is the boxed OS object the code was written against
InitPlain ==
    Fresh(1 .. NumThreads, {"Reader", "Writer"}, {"Fifo", "Lifo"}, {"boxed"}, 0)

NextPlain ==
    \/ \E t \in Threads : read(t)
    \/ \E t \in Threads : read_wake(t)
    \/ \E t \in Threads : write(t)
    \/ \E t \in Threads : write_wake(t)
    \/ \E t \in Threads : DropReadGuard(t)
    \/ \E t \in Threads : DropWriteGuard(t)
    \/ \E t \in Threads : Deref(t)
    \/ \E t \in Threads : DerefMut(t)

SpecPlain == InitPlain /\ [][NextPlain]_vars

\* N writers, each calling write() once and dropping the guard, on a
\* Reader-preferred lock that no reader ever asks for; no spurious wakeups
InitWriters ==
    Fresh(1 .. NumWriters, {"Reader"}, {"Fifo", "Lifo"}, {"boxed"}, 0)

NextWriters ==
    \/ \E t \in Threads : write(t)
    \/ \E t \in Threads : write_wake(t)
    \/ \E t \in Threads : DropWriteGuard(t)
    \/ \E t \in Threads : DerefMut(t)

SpecWriters == InitWriters /\ [][NextWriters]_vars /\ WF_vars(NextWriters)

\* W0 takes the write guard of a new lock, W1..Wn call write() in that order
\* while W0 holds it, then W0 drops it; nobody else arrives
Called(t) == todo[t] = 0

QueueCall(t) == IF t = 0 THEN TRUE ELSE Called(t - 1) /\ pc[0] = "writing"

QueueDrop(t) == t = 0 => \A u \in Threads : Called(u)

InitQueue ==
    Fresh(0 .. NumQueued, {"Reader", "Writer"}, {"Fifo", "Lifo"},
          {"boxed", "inline"}, 0)

NextQueue ==
    \/ \E t \in Threads : QueueCall(t) /\ write(t)
    \/ \E t \in Threads : write_wake(t)
    \/ \E t \in Threads : QueueDrop(t) /\ DropWriteGuard(t)
    \/ \E t \in Threads : DerefMut(t)
    \/ \E t \in Threads : SpuriousWake(t)

SpecQueue == InitQueue /\ [][NextQueue]_vars

\* the same scenario with the boxed Condvar and no spurious wakeup
InitQueuePlain ==
    Fresh(0 .. NumQueued, {"Reader", "Writer"}, {"Fifo", "Lifo"}, {"boxed"}, 0)

NextQueuePlain ==
    \/ \E t \in Threads : QueueCall(t) /\ write(t)
    \/ \E t \in Threads : write_wake(t)
    \/ \E t \in Threads : QueueDrop(t) /\ DropWriteGuard(t)
    \/ \E t \in Threads : DerefMut(t)

SpecQueuePlain == InitQueuePlain /\ [][NextQueuePlain]_vars

\* main(): Reader preference, Lifo, payload 42; thread i writes i when
\* i % 3 != 0 and reads otherwise, uses the guard once and drops it
DemoWrites(t) == t % 3 # 0

InitDemo ==
    Fresh(0 .. DemoThreads - 1, {"Reader"}, {"Lifo"}, {"boxed"}, 42)

NextDemo ==
    \/ \E t \in Threads : ~DemoWrites(t) /\ read(t)
    \/ \E t \in Threads : read_wake(t)
    \/ \E t \in Threads : DemoWrites(t) /\ write(t)
    \/ \E t \in Threads : write_wake(t)
    \/ \E t \in Threads : Deref(t)
    \/ \E t \in Threads : DerefMut(t)
    \/ \E t \in Threads : obs[t] # None /\ DropReadGuard(t)
    \/ \E t \in Threads : obs[t] # None /\ DropWriteGuard(t)

SpecDemo == InitDemo /\ [][NextDemo]_vars /\ WF_vars(NextDemo)

\* ---------------------------------------------------------------- claims

ReadGuards == {t \in Threads : pc[t] = "reading"}
WriteGuards == {t \in Threads : pc[t] = "writing"}

\* C1: mutual exclusion.  In every reachable state, under every policy and
\* wake order, actv_writer is at most 1 and is not 1 together with
\* actv_reader > 0; likewise there are never two live WriteGuards, nor a
\* live WriteGuard together with a live ReadGuard.
C1_MutualExclusion ==
    /\ state.actv_writer <= 1
    /\ ~(state.actv_writer = 1 /\ state.actv_reader > 0)
    /\ Cardinality(WriteGuards) <= 1
    /\ ~(WriteGuards # {} /\ ReadGuards # {})

\* a writer holds the lock while a reader and another writer are blocked
C1_Witness ==
    /\ state.actv_writer = 1
    /\ WriteGuards # {}
    /\ \E r \in Threads : pc[r] = "rwait"
    /\ \E w \in Threads : pc[w] = "wwait"

\* C2: read(), write() and both drops never fail: no thread ever panics
\* (no vec[len] past the end in write(), no vec[0] / pop().unwrap() on an
\* empty Vec in a drop) and the internal mutex is never poisoned.
C2_NeverFails ==
    /\ ~poisoned
    /\ \A t \in Threads : pc[t] # "panicked"

\* a thread that can take a step without anybody's help
Runnable(t) ==
    \/ pc[t] \in {"rwake", "wwake", "reading", "writing"}
    \/ pc[t] = "idle" /\ todo[t] > 0

\* the thread made its call and dropped its guard
Finished(t) == pc[t] = "idle" /\ todo[t] = 0

\* the thread was given a guard
Admitted(t) == pc[t] \in {"reading", "writing"} \/ Finished(t)

\* C3: no lost wakeups among writers.  With Reader preference, N writers
\* and no reader, no state is reached where a writer is blocked in write()
\* and no thread is left that could ever notify it (so each write() returns
\* under fair scheduling without a spurious wakeup).
C3_NoLostWakeup ==
    (\E t \in Threads : pc[t] = "wwait") => (\E u \in Threads : Runnable(u))

\* C4: FIFO ordering.  Under Fifo, with W1..Wn queued in that order behind
\* W0, a queued writer holds or has held the guard only when every writer
\* queued before it has dropped its guard, and the run ends only when all
\* of them have had the guard.
C4_FifoOrder ==
    order = "Fifo" =>
        /\ \A t \in Threads \ {0} :
              Admitted(t) => \A u \in 1 .. t - 1 : Finished(u)
        /\ (\A t \in Threads : ~Runnable(t)) => (\A t \in Threads : Finished(t))

\* C5: LIFO ordering.  Under Lifo, with W1..Wn queued in that order behind
\* W0, a queued writer holds or has held the guard only when every writer
\* queued after it has dropped its guard, and the run ends only when all of
\* them have had the guard.
C5_LifoOrder ==
    order = "Lifo" =>
        /\ \A t \in Threads \ {0} :
              Admitted(t) => \A u \in t + 1 .. NumQueued : Finished(u)
        /\ (\A t \in Threads : ~Runnable(t)) => (\A t \in Threads : Finished(t))

Released(t) == pc[t] \in {"idle", "panicked"} /\ todo[t] = 0

\* C7: value integrity.  What a thread saw or stored through its live guard
\* is still the payload (so two live ReadGuards show the same value), and
\* what a reader sees is the initial value or the value stored by a writer
\* whose guard is gone.
C7_ValueIntegrity ==
    \A t \in Threads :
        (pc[t] \in {"reading", "writing"} /\ obs[t] # None) =>
            /\ obs[t] = data
            /\ pc[t] = "reading" =>
                  (data = 0 \/ (data \in Threads /\ Released(data)))

\* two readers hold guards at once and both see what a writer stored
C7_Witness ==
    \E t1, t2 \in Threads :
        /\ t1 # t2
        /\ pc[t1] = "reading" /\ pc[t2] = "reading"
        /\ obs[t1] \in Threads /\ obs[t2] = obs[t1]

\* every thread of main() has returned or panicked: all joins return
Joined == \A t \in Threads : Finished(t) \/ pc[t] = "panicked"

\* C8: the demo of main().  Readers and writers are never active together,
\* the run does not stop before every thread has finished, and once all
\* threads are joined the payload is the number of one of the writers.
C8_Demo ==
    /\ ~(state.actv_reader > 0 /\ state.actv_writer > 0)
    /\ (\A t \in Threads : ~Runnable(t)) => Joined
    /\ Joined => (data \in Threads /\ DemoWrites(data))

\* C9: writer preference on the read side.  A reader is admitted only with
\* actv_writer = 0 and no live WriteGuard, and under Writer preference only
\* with wtng_writer = 0 and no writer waiting too; a reader that checks its
\* condition goes (back) to waiting only when that fails, so under Reader
\* preference it gets in exactly when actv_writer = 0.
C9_ReaderAdmission ==
    [][\A t \in Threads :
          /\ (pc[t] # "reading" /\ pc'[t] = "reading") =>
                /\ state.actv_writer = 0
                /\ WriteGuards = {}
                /\ pref = "Writer" =>
                      /\ state.wtng_writer = 0
                      /\ \A u \in Threads : pc[u] \notin {"wwait", "wwake"}
          /\ (pc[t] \in {"idle", "rwake"} /\ pc'[t] = "rwait") =>
                IF pref = "Reader" THEN state.actv_writer > 0
                ELSE state.actv_writer + state.wtng_writer > 0]_vars

\* under Writer preference a reader is kept out by a writer that only waits
C9_Witness ==
    /\ pref = "Writer"
    /\ state.actv_writer = 0
    /\ state.wtng_writer > 0
    /\ \E r \in Threads : pc[r] = "rwait"

\* C10: reader preference on the write side.  A writer is admitted only
\* with actv_writer = 0 and actv_reader = 0 and no live guard, and under
\* Reader preference only with wtng_reader = 0 and no reader waiting too.
C10_WriterAdmission ==
    [][\A t \in Threads :
          (pc[t] # "writing" /\ pc'[t] = "writing") =>
              /\ state.actv_writer = 0
              /\ state.actv_reader = 0
              /\ WriteGuards = {} /\ ReadGuards = {}
              /\ pref = "Reader" =>
                    /\ state.wtng_reader = 0
                    /\ \A u \in Threads : pc[u] \notin {"rwait", "rwake"}]_vars

\* under Reader preference a writer is kept out by readers that only wait
C10_Witness ==
    /\ pref = "Reader"
    /\ state.actv_writer = 0
    /\ state.actv_reader = 0
    /\ state.wtng_reader > 0
    /\ \E w \in Threads : pc[w] \in {"wwait", "wwake"}

\* the threads inside write() that are not admitted: blocked, or woken and
\* not yet through the re-check
WaitingWriters == {u \in Threads : pc[u] \in {"wwait", "wwake"}}

\* C11: wake-order priority.  Whenever a step admits a writer while other
\* writers are still waiting, under Fifo the admitted writer called write()
\* before each of them (its handle is older), and under Lifo after each of
\* them; a writer that arrives between a release and the re-check of the
\* notified writer is included.
C11_WakeOrderPriority ==
    [][\A t \in Threads :
          (pc[t] # "writing" /\ pc'[t] = "writing") =>
              \A u \in WaitingWriters \ {t} :
                  IF order = "Fifo" THEN own'[t] < own[u]
                  ELSE own'[t] > own[u]]_vars

\* C12: queue length.  In every state (the mutex is free between two
\* actions) the Vec of writer handles has as many entries as wtng_writer
\* counts: after a write() admitted without blocking, after a release has
\* notified a writer that has not run yet, and on the idle lock.
C12_QueueLength ==
    Len(writer) = state.wtng_writer

\* C13: own-handle waiting.  A writer blocked in write() waits on the handle
\* it pushed itself when it entered write(), at its first wait and at every
\* later one, and no two blocked writers wait on the same handle.
C13_OwnHandle ==
    \A t \in Threads :
        pc[t] = "wwait" =>
            /\ cv[t] = own[t]
            /\ \A u \in Threads \ {t} : pc[u] = "wwait" => cv[u] # cv[t]

\* the handles in the Vec
Handles == {writer[i] : i \in DOMAIN writer}

\* C14: handle lifetime.  From the push in write() until the writer is
\* admitted its handle is in the Vec: a writer that is blocked, or notified
\* and not yet admitted, still has its handle there, because a releasing
\* guard notifies a handle and does not remove it.
C14_HandleLifetime ==
    \A t \in WaitingWriters : own[t] \in Handles

\* C15: queue entries are live waiters.  Each entry of the Vec was pushed by
\* exactly one writer that is inside write() and not yet admitted (never by
\* a writer that has its guard or has finished), and a blocked writer waits
\* on no entry but the one it pushed.
C15_LiveEntries ==
    /\ \A h \in Handles :
          Cardinality({t \in WaitingWriters : own[t] = h}) = 1
    /\ \A t \in Threads :
          (pc[t] = "wwait" /\ cv[t] \in Handles) => cv[t] = own[t]

\* the writers blocked in wait(), and those a step takes out of wait()
BlockedWriters == {u \in Threads : pc[u] = "wwait"}
Woken == {u \in Threads : pc[u] \in {"rwait", "wwait"} /\ pc'[u] \in {"rwake", "wwake"}}

\* the blocked writer the wake order puts first: the earliest to have
\* called write() under Fifo, the latest under Lifo
First(u) ==
    /\ u \in BlockedWriters
    /\ \A v \in BlockedWriters \ {u} :
          IF order = "Fifo" THEN own[u] < own[v] ELSE own[u] > own[v]

\* C16: read-side release.  A ReadGuard dropped with wtng_writer > 0 wakes
\* exactly one blocked writer when there is one, the earliest-enqueued under
\* Fifo and the latest-enqueued under Lifo (it never notifies a handle nobody
\* waits on while a writer is blocked); dropped with wtng_writer = 0 it
\* wakes nobody.
C16_ReadReleaseWakesOne ==
    [][\A t \in Threads :
          (pc[t] = "reading" /\ pc'[t] # "reading" /\ ~poisoned) =>
              IF state.wtng_writer > 0 /\ BlockedWriters # {}
              THEN \E u \in Threads : Woken = {u} /\ First(u)
              ELSE Woken = {}]_vars

\* a release that takes the writer branch wakes the one blocked writer the
\* wake order puts first, when a writer is blocked
WakesOneWriter ==
    IF BlockedWriters # {}
    THEN \E u \in Threads : Woken = {u} /\ First(u)
    ELSE Woken = {}

\* C17: write-side release.  Dropping a WriteGuard decrements actv_writer;
\* then under Reader preference it wakes all waiting readers and no writer if
\* wtng_reader > 0, else one writer per the wake order if wtng_writer > 0;
\* under Writer preference it wakes one writer and no reader if
\* wtng_writer > 0, else all waiting readers if wtng_reader > 0; with both
\* counts 0 it wakes nobody.
C17_WriteReleaseChoice ==
    [][\A t \in Threads :
          (pc[t] = "writing" /\ pc'[t] # "writing" /\ ~poisoned) =>
              /\ state'.actv_writer = state.actv_writer - 1
              /\ IF pref = "Reader"
                 THEN IF state.wtng_reader > 0 THEN Woken = WaitingReaders
                      ELSE IF state.wtng_writer > 0 THEN WakesOneWriter
                      ELSE Woken = {}
                 ELSE IF state.wtng_writer > 0 THEN WakesOneWriter
                      ELSE IF state.wtng_reader > 0 THEN Woken = WaitingReaders
                      ELSE Woken = {}]_vars

\* C18: notification means 'may retry'.  A writer that is woken while its
\* admission condition is still false goes back to waiting: the step of its
\* re-check neither fails nor admits it.
C18_MayRetry ==
    [][\A t \in Threads :
          (pc[t] = "wwake" /\ pc'[t] # "wwake" /\ ~poisoned /\ WriteMustWait(state))
              => pc'[t] = "wwait"]_vars

\* C19: acquisition is total.  No state is reached where the lock is free
\* (actv_reader = 0 and actv_writer = 0), a thread is blocked in read() or
\* write(), and nothing is left that could wake it: no notified thread on its
\* way, no guard to drop, no call still to come.
C19_AcquisitionTotal ==
    (/\ state.actv_reader = 0
     /\ state.actv_writer = 0
     /\ \E t \in Threads : pc[t] \in {"rwait", "wwait"})
        => \E u \in Threads : Runnable(u)

\* the threads inside read() that are not admitted
WaitingReadersAll == {u \in Threads : pc[u] \in {"rwait", "rwake"}}

\* C20: counter accounting.  In every state (the mutex is free between two
\* actions) actv_reader is the number of live ReadGuards, actv_writer the
\* number of live WriteGuards, wtng_reader the number of threads inside
\* read() not yet admitted and wtng_writer the number of threads inside
\* write() not yet admitted; so no counter is negative, actv_writer is 0 or
\* 1, and all four are 0 once every thread is done and its guard is gone.
C20_CounterAccounting ==
    /\ state.actv_reader = Cardinality(ReadGuards)
    /\ state.actv_writer = Cardinality(WriteGuards)
    /\ state.wtng_reader = Cardinality(WaitingReadersAll)
    /\ state.wtng_writer = Cardinality(WaitingWriters)
    /\ state.actv_reader >= 0 /\ state.wtng_reader >= 0 /\ state.wtng_writer >= 0
    /\ state.actv_writer \in {0, 1}
    /\ (\A t \in Threads : Released(t)) =>
          state = [actv_reader |-> 0, actv_writer |-> 0,
                   wtng_reader |-> 0, wtng_writer |-> 0]
====
